---- MODULE Spec2Model ----
(***************************************************************************)
(* A model of wbproto-beautifier (src/lib/src/beautifier.rs and the driver *)
(* in src/app/src/main.rs).                                                *)
(*                                                                         *)
(* Text is a sequence of one-character strings, so that String::len() is   *)
(* Len, `+=` is \o, and trim / starts_with / lines are computed on the     *)
(* characters.  A syntax tree is a record                                  *)
(*   [kind, text, srow, erow, named, children]                             *)
(* mirroring what the code reads from tree_sitter::Node: kind(), the       *)
(* utf8_text() slice, range().start_point.row / end_point.row, is_named()  *)
(* and children().                                                         *)
(***************************************************************************)
EXTENDS Integers, Sequences, FiniteSets, TLC

(***************************************************************************)
(* Characters and string helpers (Rust str methods used by the formatter). *)
(***************************************************************************)
NL == "\n"
SP == " "

IsSpace(c) == c = SP \/ c = NL

\* " ".repeat(n)
Spaces(n) == [k \in 1..n |-> SP]

\* str::trim_start
TrimStart(s) ==
  IF \A k \in 1..Len(s) : IsSpace(s[k]) THEN << >>
  ELSE SubSeq(s, CHOOSE k \in 1..Len(s) :
                   ~IsSpace(s[k]) /\ \A m \in 1..(k - 1) : IsSpace(s[m]),
              Len(s))

\* str::trim_end
TrimEnd(s) ==
  IF \A k \in 1..Len(s) : IsSpace(s[k]) THEN << >>
  ELSE SubSeq(s, 1, CHOOSE k \in 1..Len(s) :
                      ~IsSpace(s[k]) /\ \A m \in (k + 1)..Len(s) : IsSpace(s[m]))

\* str::trim
Trim(s) == TrimEnd(TrimStart(s))

\* str::starts_with
StartsWith(s, p) == Len(s) >= Len(p) /\ SubSeq(s, 1, Len(p)) = p

\* str::strip_prefix(p).unwrap_or(s)
StripPrefixOr(s, p) == IF StartsWith(s, p) THEN SubSeq(s, Len(p) + 1, Len(s)) ELSE s

\* p occurs in s at index k
Occurs(s, p, k) == k + Len(p) - 1 <= Len(s) /\ SubSeq(s, k, k + Len(p) - 1) = p

\* first index >= i at which p occurs in s, or Len(s) + 1
IndexFrom(s, p, i) ==
  IF \A k \in i..Len(s) : ~Occurs(s, p, k) THEN Len(s) + 1
  ELSE CHOOSE k \in i..Len(s) : Occurs(s, p, k) /\ \A m \in i..(k - 1) : ~Occurs(s, p, m)

\* the number of line breaks in s
CountNL(s) == Cardinality({k \in 1..Len(s) : s[k] = NL})

\* where the lines of s end: at each line break, and at the end of a last line without one
LineEnds(s) ==
  {k \in 1..Len(s) : s[k] = NL}
  \cup (IF s # << >> /\ s[Len(s)] # NL THEN {Len(s) + 1} ELSE {})

\* the m-th smallest element of a set of numbers
Nth(S, m) == CHOOSE x \in S : Cardinality({y \in S : y < x}) = m - 1

\* where the line that ends at e starts
LineStart(s, e) ==
  IF \A k \in 1..(e - 1) : s[k] # NL THEN 1
  ELSE 1 + CHOOSE k \in 1..(e - 1) : s[k] = NL /\ \A m \in (k + 1)..(e - 1) : s[m] # NL

\* str::lines: the pieces between line breaks; a final line break makes no piece
Lines(s) ==
  [m \in 1..Cardinality(LineEnds(s)) |->
     SubSeq(s, LineStart(s, Nth(LineEnds(s), m)), Nth(LineEnds(s), m) - 1)]

RECURSIVE JoinWith(_, _)
JoinWith(ss, sep) ==
  IF ss = << >> THEN << >>
  ELSE IF Len(ss) = 1 THEN ss[1]
  ELSE ss[1] \o sep \o JoinWith(Tail(ss), sep)

(***************************************************************************)
(* Words of the language.                                                  *)
(***************************************************************************)
kwPROTO       == <<"P", "R", "O", "T", "O">>
kwEXTERNPROTO == <<"E", "X", "T", "E", "R", "N", "P", "R", "O", "T", "O">>
kwDEF         == <<"D", "E", "F">>
kwUSE         == <<"U", "S", "E">>
kwField       == <<"f", "i", "e", "l", "d">>
kwVrmlField   == <<"v", "r", "m", "l", "F", "i", "e", "l", "d">>
kwVRML        == <<"V", "R", "M", "L">>
jsOpen        == <<"%", "<">>
jsClose       == <<">", "%">>

FieldKinds == {kwField, kwVrmlField}
Punct      == {"[", "]", "{", "}", ","}

(***************************************************************************)
(* The parser (tree_sitter::Parser::parse with the wbproto grammar).  The  *)
(* grammar is an external crate; the model is a lexer and a recursive      *)
(* descent parser for the constructs the formatter dispatches on.          *)
(***************************************************************************)
Node(k, t, sr, er, nm, ch) ==
  [kind |-> k, text |-> t, srow |-> sr, erow |-> er, named |-> nm, children |-> ch]

Leaf(k, t, r, nm) == Node(k, t, r, r, nm, << >>)

ErrorNode(r) == Leaf("ERROR", << >>, r, TRUE)

\* a character that ends a word
Delimiter(c) == IsSpace(c) \/ c \in Punct \/ c = "#"

\* index just past the word starting at i
WordEnd(s, i) ==
  IF \A k \in i..Len(s) : ~Delimiter(s[k]) THEN Len(s) + 1
  ELSE CHOOSE k \in i..Len(s) : Delimiter(s[k]) /\ \A m \in i..(k - 1) : ~Delimiter(s[m])

WordKind(w) ==
  IF w = kwDEF THEN "DEF"
  ELSE IF w = kwUSE THEN "USE"
  ELSE IF w = kwPROTO THEN "PROTO"
  ELSE IF w = kwEXTERNPROTO THEN "EXTERNPROTO"
  ELSE IF w \in FieldKinds THEN "fieldkind"
  ELSE "identifier"

\* what the lexer found at a position: the tokens, and where it goes on
Lexed(toks, i, row) == [toks |-> toks, i |-> i, row |-> row]

WordToken(w, k, row) == Leaf(k, w, row, k \in {"identifier", "fieldkind"})

LexWord(s, i, j, row) ==
  Lexed(<<WordToken(SubSeq(s, i, j - 1), WordKind(SubSeq(s, i, j - 1)), row)>>, j, row)

LexComment(s, i, j, row) ==
  Lexed(<<Leaf("comment", SubSeq(s, i, j - 1), row, TRUE)>>, j, row)

\* the code between the delimiters: raw is all of it, code is raw trimmed
JsTokens(raw, code, row) ==
  <<Leaf("%<", jsOpen, row, FALSE)>>
  \o (IF code = << >> THEN << >>
      ELSE <<Node("code", code,
                  row + CountNL(raw) - CountNL(TrimStart(raw)),
                  row + CountNL(raw) - CountNL(TrimStart(raw)) + CountNL(code),
                  TRUE, << >>)>>)
  \o <<Leaf(">%", jsClose, row + CountNL(raw), FALSE)>>

LexJsRaw(raw, j, row) == Lexed(JsTokens(raw, Trim(raw), row), j + 2, row + CountNL(raw))

\* an embedded code block from i; j is where its closing delimiter starts
LexJs(s, i, j, row) ==
  IF j > Len(s) THEN Lexed(<<ErrorNode(row)>>, Len(s) + 1, row)
  ELSE LexJsRaw(SubSeq(s, i + 2, j - 1), j, row)

\* the token at index i, which holds neither a space nor a line break
LexStep(s, i, row) ==
  IF s[i] = "#" THEN LexComment(s, i, IndexFrom(s, <<NL>>, i), row)
  ELSE IF s[i] \in Punct THEN Lexed(<<Leaf(s[i], <<s[i]>>, row, FALSE)>>, i + 1, row)
  ELSE IF StartsWith(SubSeq(s, i, Len(s)), jsOpen)
       THEN LexJs(s, i, IndexFrom(s, jsClose, i + 2), row)
  ELSE LexWord(s, i, WordEnd(s, i), row)

\* first index >= i that holds no space, or Len(s) + 1
SkipSpaces(s, i) ==
  IF \A k \in i..Len(s) : s[k] = SP THEN Len(s) + 1
  ELSE CHOOSE k \in i..Len(s) : s[k] # SP /\ \A m \in i..(k - 1) : s[m] = SP

RECURSIVE LexLine(_, _, _, _)
LexLineNext(s, l, acc) == LexLine(s, SkipSpaces(s, l.i), l.row, acc \o l.toks)

\* the tokens from index i up to the next line break after them
LexLine(s, i, row, acc) ==
  IF i > Len(s) \/ s[i] = NL THEN Lexed(acc, i, row)
  ELSE LexLineNext(s, LexStep(s, i, row), acc)

RECURSIVE Lex(_, _, _, _)
LexNext(s, l, acc) == Lex(s, l.i + 1, l.row + 1, acc \o l.toks)

\* the tokens of s from index i on, each a leaf node with its row
Lex(s, i, row, acc) ==
  IF i > Len(s) THEN acc
  ELSE LexNext(s, LexLine(s, SkipSpaces(s, i), row, << >>), acc)

\* a parse step's result: the node, the next token index, and whether it is clean
PR(n, i, ok) == [n |-> n, i |-> i, ok |-> ok]

Composite(k, ch) == Node(k, << >>, ch[1].srow, ch[Len(ch)].erow, TRUE, ch)

RowAt(ts, i) ==
  IF i <= Len(ts) THEN ts[i].srow ELSE IF ts = << >> THEN 0 ELSE ts[Len(ts)].erow

\* the rule cannot continue at token i: an ERROR child, and the rest is skipped
Broken(k, ch, ts, i) ==
  PR(Composite(k, Append(ch, ErrorNode(RowAt(ts, i)))), Len(ts) + 1, FALSE)

\* the rule ends with the unclean child v
Into(k, ch, v, ts) == PR(Composite(k, Append(ch, v.n)), Len(ts) + 1, FALSE)

RECURSIVE ParseValue(_, _)
RECURSIVE ParseVectorItems(_, _, _)
RECURSIVE ParseNodeBody(_, _, _)
RECURSIVE ParseNodeDef(_, _)

ParseJs(ts, i) ==
  IF i + 1 <= Len(ts) /\ ts[i + 1].kind = ">%"
  THEN PR(Composite("javascript_block", <<ts[i], ts[i + 1]>>), i + 2, TRUE)
  ELSE IF i + 2 <= Len(ts) /\ ts[i + 1].kind = "code" /\ ts[i + 2].kind = ">%"
  THEN PR(Composite("javascript_block", <<ts[i], ts[i + 1], ts[i + 2]>>), i + 3, TRUE)
  ELSE Broken("javascript_block", <<ts[i]>>, ts, i + 1)

StartsNode(ts, i) ==
  \/ ts[i].kind \in {"DEF", "USE"}
  \/ ts[i].kind = "identifier" /\ i + 1 <= Len(ts) /\ ts[i + 1].kind = "{"

ParseValue(ts, i) ==
  IF i > Len(ts) THEN PR(ErrorNode(RowAt(ts, i)), i, FALSE)
  ELSE IF ts[i].kind = "[" THEN ParseVectorItems(ts, i + 1, <<ts[i]>>)
  ELSE IF ts[i].kind = "%<" THEN ParseJs(ts, i)
  ELSE IF StartsNode(ts, i) THEN ParseNodeDef(ts, i)
  ELSE IF ts[i].kind = "identifier" THEN PR(ts[i], i + 1, TRUE)
  ELSE PR(ErrorNode(ts[i].srow), Len(ts) + 1, FALSE)

VectorItem(v, ts, ch) ==
  IF v.ok THEN ParseVectorItems(ts, v.i, Append(ch, v.n)) ELSE Into("vector", ch, v, ts)

\* vector: '[' (value | ',' | comment)* ']'
ParseVectorItems(ts, i, ch) ==
  IF i > Len(ts) THEN Broken("vector", ch, ts, i)
  ELSE IF ts[i].kind = "]" THEN PR(Composite("vector", Append(ch, ts[i])), i + 1, TRUE)
  ELSE IF ts[i].kind \in {",", "comment"} THEN ParseVectorItems(ts, i + 1, Append(ch, ts[i]))
  ELSE VectorItem(ParseValue(ts, i), ts, ch)

NodeItem(v, ts, ch) ==
  IF v.ok THEN ParseNodeBody(ts, v.i, Append(ch, v.n)) ELSE Into("node", ch, v, ts)

\* property: name value
AsProperty(name, v) == [v EXCEPT !.n = Composite("property", <<name, @>>)]

\* node body after '{': (property | comment | javascript_block)* '}'
ParseNodeBody(ts, i, ch) ==
  IF i > Len(ts) THEN Broken("node", ch, ts, i)
  ELSE IF ts[i].kind = "}" THEN PR(Composite("node", Append(ch, ts[i])), i + 1, TRUE)
  ELSE IF ts[i].kind = "comment" THEN ParseNodeBody(ts, i + 1, Append(ch, ts[i]))
  ELSE IF ts[i].kind = "%<" THEN NodeItem(ParseJs(ts, i), ts, ch)
  ELSE IF ts[i].kind = "identifier"
       THEN NodeItem(AsProperty(ts[i], ParseValue(ts, i + 1)), ts, ch)
  ELSE Broken("node", ch, ts, i)

IsKind(ts, i, k) == i <= Len(ts) /\ ts[i].kind = k

\* node: 'DEF' id Type '{' ... '}' | 'USE' id | Type '{' ... '}'
ParseNodeDef(ts, i) ==
  IF ts[i].kind = "USE" THEN
    IF IsKind(ts, i + 1, "identifier")
    THEN PR(Composite("node", <<ts[i], ts[i + 1]>>), i + 2, TRUE)
    ELSE Broken("node", <<ts[i]>>, ts, i + 1)
  ELSE IF ts[i].kind = "DEF" THEN
    IF IsKind(ts, i + 1, "identifier") /\ IsKind(ts, i + 2, "identifier")
       /\ IsKind(ts, i + 3, "{")
    THEN ParseNodeBody(ts, i + 4, <<ts[i], ts[i + 1], ts[i + 2], ts[i + 3]>>)
    ELSE Broken("node", <<ts[i]>>, ts, i + 1)
  ELSE IF IsKind(ts, i + 1, "{") THEN ParseNodeBody(ts, i + 2, <<ts[i], ts[i + 1]>>)
  ELSE Broken("node", <<ts[i]>>, ts, i + 1)

FieldParts(ch) == Cardinality({k \in 1..Len(ch) : ch[k].kind # "comment"})

FieldDone(v, ch) == PR(Composite("field", Append(ch, v.n)), v.i, v.ok)

RECURSIVE ParseField(_, _, _)
\* field: kind type name value; a comment met inside the rule is an extra child
ParseField(ts, i, ch) ==
  IF IsKind(ts, i, "comment") /\ FieldParts(ch) < 4
  THEN ParseField(ts, i + 1, Append(ch, ts[i]))
  ELSE IF FieldParts(ch) = 3 THEN FieldDone(ParseValue(ts, i), ch)
  ELSE IF IsKind(ts, i, "identifier") THEN ParseField(ts, i + 1, Append(ch, ts[i]))
  ELSE Broken("field", ch, ts, i)

RECURSIVE ParseProto(_, _, _, _)
ProtoItem(v, ts, ch, phase, kinds) ==
  IF v.ok /\ v.n.kind \in kinds THEN ParseProto(ts, v.i, Append(ch, v.n), phase)
  ELSE IF v.ok THEN Broken("proto", ch, ts, v.i)
  ELSE Into("proto", ch, v, ts)

\* proto: 'PROTO' name '[' (field | comment)* ']' '{' (node | comment | js)* '}'
\* phase: 0 name, 1 '[', 2 header, 3 '{', 4 body
ParseProto(ts, i, ch, phase) ==
  IF i > Len(ts) THEN Broken("proto", ch, ts, i)
  ELSE IF ts[i].kind = "comment" THEN ParseProto(ts, i + 1, Append(ch, ts[i]), phase)
  ELSE IF phase = 0 /\ ts[i].kind = "identifier"
       THEN ParseProto(ts, i + 1, Append(ch, [ts[i] EXCEPT !.kind = "name"]), 1)
  ELSE IF phase = 1 /\ ts[i].kind = "[" THEN ParseProto(ts, i + 1, Append(ch, ts[i]), 2)
  ELSE IF phase = 2 /\ ts[i].kind = "]" THEN ParseProto(ts, i + 1, Append(ch, ts[i]), 3)
  ELSE IF phase = 2 /\ ts[i].kind = "fieldkind"
       THEN ProtoItem(ParseField(ts, i + 1, <<ts[i]>>), ts, ch, 2, {"field"})
  ELSE IF phase = 3 /\ ts[i].kind = "{" THEN ParseProto(ts, i + 1, Append(ch, ts[i]), 4)
  ELSE IF phase = 4 /\ ts[i].kind = "}"
       THEN PR(Composite("proto", Append(ch, ts[i])), i + 1, TRUE)
  ELSE IF phase = 4 /\ ts[i].kind \in {"identifier", "DEF", "USE", "%<"}
       THEN ProtoItem(ParseValue(ts, i), ts, ch, 4, {"node", "javascript_block"})
  ELSE Broken("proto", ch, ts, i)

RECURSIVE ParseDocument(_, _, _)
DocItem(v, ts, ch, t) ==
  IF v.ok /\ v.n.kind \in {"proto", "node"} THEN ParseDocument(ts, v.i, Append(ch, v.n))
  ELSE IF v.ok THEN Append(ch, ErrorNode(t.srow))
  ELSE Append(ch, v.n)

\* document: (comment | extern | proto | node)*
ParseDocument(ts, i, ch) ==
  IF i > Len(ts) THEN ch
  ELSE IF ts[i].kind = "comment" THEN ParseDocument(ts, i + 1, Append(ch, ts[i]))
  ELSE IF ts[i].kind = "EXTERNPROTO" THEN
    IF IsKind(ts, i + 1, "identifier")
    THEN ParseDocument(ts, i + 2, Append(ch, Composite("extern", <<ts[i], ts[i + 1]>>)))
    ELSE Append(ch, ErrorNode(ts[i].srow))
  ELSE IF ts[i].kind = "PROTO" THEN DocItem(ParseProto(ts, i + 1, <<ts[i]>>, 0), ts, ch, ts[i])
  ELSE IF ts[i].kind \in {"identifier", "DEF", "USE"}
       THEN DocItem(ParseValue(ts, i), ts, ch, ts[i])
  ELSE Append(ch, ErrorNode(ts[i].srow))

\* parser.parse(code): the root spans the text to its end
Parse(code) ==
  Node("document", << >>, 0, CountNL(code), TRUE,
       ParseDocument(Lex(code, 1, 0, << >>), 1, << >>))

\* Node::is_error: the node itself is an error node
is_error(n) == n.kind = "ERROR"

RECURSIVE HasError(_)
\* Node::has_error
HasError(n) ==
  n.kind = "ERROR" \/ \E k \in 1..Len(n.children) : HasError(n.children[k])

(***************************************************************************)
(* The emission state (struct State) and the result of a formatter.        *)
(* formatted is State::formatted; out is the process's standard output,    *)
(* which print!/println! write to when arguments.inplace is false.         *)
(* extra_indentation is 0 throughout the program and num_spaces is         *)
(* NumSpaces.                                                              *)
(***************************************************************************)
VARIABLES clang

NumSpaces == 2

NewState(inplace) ==
  [formatted |-> << >>, out |-> << >>, inplace |-> inplace, col |-> 0, row |-> 0, level |-> 0]

\* State::print
print(st, string) ==
  [st EXCEPT !.formatted = IF st.inplace THEN @ \o string ELSE @,
             !.out       = IF st.inplace THEN @ ELSE @ \o string,
             !.col       = @ + Len(string)]

\* State::println
println(st, string) ==
  [st EXCEPT !.formatted = IF st.inplace THEN @ \o string \o <<NL>> ELSE @,
             !.out       = IF st.inplace THEN @ ELSE @ \o string \o <<NL>>,
             !.col       = 0,
             !.row       = @ + 1]

\* State::indent
indent(st) == print(st, Spaces(st.level * NumSpaces))

\* state.println(""); state.indent()
newline(st) == indent(println(st, << >>))

\* state.level += n
shift(st, n) == [st EXCEPT !.level = @ + n]

\* Result<()> of a formatter, with the state it left; Panic is an unwrap/expect abort
Ok(st)    == [st |-> st, res |-> "Ok"]
Err(st)   == [st |-> st, res |-> "Err"]
Panic(st) == [st |-> st, res |-> "Panic"]

\* the `?` operator: go on with F only after Ok
Then(r, F(_)) == IF r.res = "Ok" THEN F(r.st) ELSE r

\* State::print_node
print_node(st, node) == Ok(print(st, node.text))

\* format_comment's `stripped`: the comment is no section marker
Stripped(text) == ~StartsWith(Trim(text), <<"#", "#">>)

\* format_comment's `line`
CommentLine(text) ==
  IF Stripped(text) THEN Trim(StripPrefixOr(text, <<"#">>)) ELSE Trim(text)

\* a marker that is always followed by a space
SpacedMarker(text) == IF ~Stripped(text) THEN << >> ELSE <<"#", SP>>

\* what format_comment prints before `line`
CommentMarker(text) ==
  IF ~Stripped(text) THEN << >>
  ELSE IF ~StartsWith(CommentLine(text), kwVRML) THEN <<"#", SP>>
  ELSE <<"#">>

\* format_comment
format_comment(st, node) ==
  Ok(print(print(st, CommentMarker(node.text)), CommentLine(node.text)))

RECURSIVE extern_loop(_, _, _)
extern_loop(st, node, i) ==
  IF i > Len(node.children) THEN Ok(st)
  ELSE extern_loop(print(IF i # 1 THEN print(st, <<SP>>) ELSE st, node.children[i].text),
                   node, i + 1)

\* format_extern
format_extern(st, node) == extern_loop(st, node, 1)

(***************************************************************************)
(* The external formatter (clang-format -assume-filename code.js) is a     *)
(* black box: clang is what it does in this run.                           *)
(*   "ok"           exit 0, one statement per line                         *)
(*   "exit_nonzero" exit status 1, nothing on stdout                       *)
(*   "spawn_fail"   the command cannot be started                          *)
(*   "not_utf8"     stdout is not valid UTF-8                              *)
(***************************************************************************)
ClangOutcomes == {"ok", "exit_nonzero", "spawn_fail", "not_utf8"}

RECURSIVE SplitStatements(_)
\* a line break after every ';' that another statement follows
SplitStatements(s) ==
  IF s = << >> THEN << >>
  ELSE IF Head(s) = ";" /\ TrimStart(Tail(s)) # << >>
       THEN <<";", NL>> \o SplitStatements(TrimStart(Tail(s)))
  ELSE <<Head(s)>> \o SplitStatements(Tail(s))

\* raw_output.stdout
ClangStdout(code) ==
  IF clang = "ok" THEN SplitStatements(Trim(code)) \o <<NL>> ELSE << >>

RECURSIVE js_lines(_, _)
js_lines(st, lines) ==
  IF lines = << >> THEN st
  ELSE js_lines(println(indent(st), Head(lines)), Tail(lines))

NamedChildren(node) == SelectSeq(node.children, LAMBDA c : c.named)

ChildrenOfKind(node, k) == SelectSeq(node.children, LAMBDA c : c.kind = k)

\* the decision shared by format_node_def, format_vector and format_javascript
Oneliner(node) == node.srow = node.erow

\* format_javascript from `if oneliner` on
js_emit(st, node, opener, formatted_code) ==
  IF Oneliner(node)
  THEN print(print(print(print(st, opener), <<SP>>), formatted_code), <<SP>> \o jsClose)
  ELSE print(indent(shift(js_lines(shift(println(st, opener), 1), Lines(formatted_code)), -1)),
             jsClose)

\* format_javascript
format_javascript(st, node) ==
  IF node.children = << >> \/ ChildrenOfKind(node, "code") = << >> THEN Err(st)
  ELSE IF clang \in {"spawn_fail", "not_utf8"} THEN Panic(st)
  ELSE Ok(js_emit(st, node, node.children[1].text,
                  Trim(ClangStdout(ChildrenOfKind(node, "code")[1].text))))

RECURSIVE format_node(_, _)
RECURSIVE property_loop(_, _, _)
RECURSIVE vector_loop(_, _, _, _, _)
RECURSIVE node_loop(_, _, _, _, _)

\* format_property
format_property(st, node) == property_loop(st, node, 1)

property_loop(st, node, i) ==
  IF i > Len(node.children) THEN Ok(st)
  ELSE Then(format_node(IF i # 1 THEN print(st, <<SP>>) ELSE st, node.children[i]),
            LAMBDA s : property_loop(s, node, i + 1))

\* format_vector's last_node: whether it is still the vector itself, and its end row
AsLast(node, isNode) == [isNode |-> isNode, erow |-> node.erow]

\* format_vector, the "]" arm
vector_close(st, node) ==
  IF Oneliner(node) THEN print(st, <<SP, "]">>)
  ELSE print(newline(shift(st, -1)), <<"]">>)

\* format_vector, where the "comment" arm puts the comment
vector_comment_at(st, last, child) ==
  IF last.erow # child.srow THEN newline(st) ELSE print(st, <<SP>>)

\* format_vector, where the default arm puts the element
vector_element_at(st, node, last, brackets) ==
  IF Oneliner(node) /\ (brackets \/ ~last.isNode) THEN print(st, <<SP>>)
  ELSE IF ~Oneliner(node) THEN newline(st)
  ELSE st

\* format_vector's loop over the children
vector_loop(st, node, i, last, brackets) ==
  IF i > Len(node.children) THEN Ok(st)
  ELSE IF node.children[i].kind = "[" THEN
    vector_loop(shift(print(st, <<"[">>), IF Oneliner(node) THEN 0 ELSE 1),
                node, i + 1, AsLast(node, TRUE), TRUE)
  ELSE IF node.children[i].kind = "]" THEN
    vector_loop(vector_close(st, node), node, i + 1,
                AsLast(node.children[i], FALSE), brackets)
  ELSE IF node.children[i].kind = "," THEN
    vector_loop(print(st, <<",">>), node, i + 1, AsLast(node.children[i], FALSE), brackets)
  ELSE IF node.children[i].kind = "comment" THEN
    Then(format_comment(vector_comment_at(st, last, node.children[i]), node.children[i]),
         LAMBDA s : vector_loop(s, node, i + 1, AsLast(node.children[i], FALSE), brackets))
  ELSE
    Then(format_node(vector_element_at(st, node, last, brackets), node.children[i]),
         LAMBDA s : vector_loop(s, node, i + 1, AsLast(node.children[i], FALSE), brackets))

\* format_vector
format_vector(st, node) == vector_loop(st, node, 1, AsLast(node, TRUE), FALSE)

\* format_node_def, where the ("comment", true) arm puts the comment
node_comment_at(st, node, last_row, child) ==
  IF ~Oneliner(node) /\ last_row # child.srow THEN newline(st)
  ELSE IF last_row = child.srow THEN print(st, <<SP>>)
  ELSE st

\* format_node_def, where the (_, true) arm puts the child
node_child_at(st, node) == IF ~Oneliner(node) THEN newline(st) ELSE print(st, <<SP>>)

\* format_node_def's loop over the children
node_loop(st, node, i, ok, last_row) ==
  IF i > Len(node.children) THEN Ok(st)
  ELSE IF node.children[i].kind = "{" /\ ~ok THEN
    node_loop(st, node, i + 1, TRUE, node.children[i].erow)
  ELSE IF node.children[i].kind = "}" /\ ok THEN
    node_loop(st, node, i + 1, FALSE, node.children[i].erow)
  ELSE IF node.children[i].kind = "comment" /\ ok THEN
    Then(format_comment(node_comment_at(st, node, last_row, node.children[i]),
                        node.children[i]),
         LAMBDA s : node_loop(s, node, i + 1, ok, node.children[i].erow))
  ELSE IF ok THEN
    Then(format_node(node_child_at(st, node), node.children[i]),
         LAMBDA s : node_loop(s, node, i + 1, ok, node.children[i].erow))
  ELSE node_loop(st, node, i + 1, ok, last_row)

\* format_node_def after the loop
node_close(st, node) ==
  print(IF Oneliner(node) THEN print(shift(st, -1), <<SP>>) ELSE newline(shift(st, -1)),
        <<"}">>)

\* format_node_def from state.print(" {") on
node_body(st, node) ==
  Then(node_loop(shift(print(st, <<SP, "{">>), 1), node, 1, FALSE, 0),
       LAMBDA s : Ok(node_close(s, node)))

\* format_node_def, the "DEF" arm: DEF <named_child(0)> <named_child(1)>
node_def_head(st, named) ==
  IF Len(named) < 1 THEN Err(print(st, kwDEF \o <<SP>>))
  ELSE IF Len(named) < 2 THEN Err(print(st, kwDEF \o <<SP>> \o named[1].text \o <<SP>>))
  ELSE Ok(print(st, kwDEF \o <<SP>> \o named[1].text \o <<SP>> \o named[2].text))

\* format_node_def
format_node_def(st, node) ==
  IF node.children = << >> THEN Err(st)
  ELSE IF node.children[1].kind = "DEF" THEN
    Then(node_def_head(st, NamedChildren(node)), LAMBDA s : node_body(s, node))
  ELSE IF NamedChildren(node) = << >> THEN Err(st)
  ELSE IF node.children[1].kind = "USE" THEN
    Ok(print(st, kwUSE \o <<SP>> \o NamedChildren(node)[1].text))
  ELSE node_body(print(st, NamedChildren(node)[1].text), node)

\* format_node; a proto is a child of the document only, where format_document
\* calls format_proto itself
format_node(st, node) ==
  CASE node.kind = "node"                  -> format_node_def(st, node)
    [] node.kind = "comment"               -> format_comment(st, node)
    [] node.kind = "extern"                -> format_extern(st, node)
    [] node.kind = "property"              -> format_property(st, node)
    [] node.kind = "vector"                -> format_vector(st, node)
    [] node.kind = "javascript_block"      -> format_javascript(st, node)
    [] node.kind = "javascript_expression" -> format_javascript(st, node)
    [] OTHER                               -> print_node(st, node)

(***************************************************************************)
(* The steps of format_document and format_proto, as functions of the      *)
(* emission state (and of format_proto's local last_line where the step    *)
(* reads or writes it).                                                    *)
(***************************************************************************)
\* last_node of format_document: the root itself, or the previous child
RootAsLast(root)  == [isRoot |-> TRUE, kind |-> root.kind, erow |-> root.erow]
ChildAsLast(node) == [isRoot |-> FALSE, kind |-> node.kind, erow |-> node.erow]

\* the formatter's result, then state.println("")
ThenLine(r) == IF r.res = "Ok" THEN Ok(println(r.st, << >>)) ELSE r

\* format_document, what the "comment" arm emits before the comment
doc_comment_at(st, last, child) ==
  IF last.erow = child.srow THEN print(st, <<SP>>)
  ELSE IF ~last.isRoot /\ child.srow - last.erow > 1 THEN println(st, << >>)
  ELSE st

\* format_document, the "comment" arm
doc_comment(st, last, child) ==
  ThenLine(format_comment(doc_comment_at(st, last, child), child))

\* format_document, what the "extern" arm emits before the extern
doc_extern_at(st, last, child) ==
  IF ~last.isRoot /\ (last.kind = "comment" \/ child.srow - last.erow > 1)
  THEN println(st, << >>) ELSE st

\* format_document, the "extern" arm
doc_extern(st, last, child) ==
  ThenLine(format_extern(doc_extern_at(st, last, child), child))

\* format_document, the default arm
doc_other(st, child) == format_node(println(st, << >>), child)

\* format_document, the "proto" arm up to format_proto's lookup of the name child
doc_proto(st, child) ==
  IF ChildrenOfKind(child, "name") = << >> THEN Err(println(st, << >>))
  ELSE Ok(println(st, << >>))

\* the later of two sizes, whichever is larger
Latest(a, b) == b

\* std::cmp::max
Max(a, b) == IF a >= b THEN a ELSE b

\* a measurement of field_sizes: the state, how it ended, and the lengths or sizes
Measured(st, res, val) == [st |-> st, res |-> res, val |-> val]

RECURSIVE fs_parts(_, _, _, _)
fs_part_done(r, children, p, lens) ==
  IF r.res # "Ok" THEN Measured(r.st, "Panic", lens)
  ELSE fs_parts([r.st EXCEPT !.formatted = << >>], children, p + 1,
                Append(lens, Len(r.st.formatted)))

\* field_sizes: the four parts of one field, each formatted into the cleared buffer
fs_parts(st, children, p, lens) ==
  IF p > 4 THEN Measured(st, "Ok", lens)
  ELSE IF p > Len(children) THEN Measured(st, "Panic", lens)
  ELSE fs_part_done(format_node(st, children[p]), children, p, lens)

RECURSIVE fs_loop(_, _, _, _)
fs_field_done(m, fields, k, sizes) ==
  IF m.res # "Ok" THEN Measured(m.st, "Panic", sizes)
  ELSE fs_loop(m.st, fields, k + 1, [c \in 1..4 |-> Max(sizes[c], m.val[c] + NumSpaces)])

\* field_sizes: the loop over the fields
fs_loop(st, fields, k, sizes) ==
  IF k > Len(fields) THEN Measured(st, "Ok", sizes)
  ELSE fs_field_done(fs_parts(st, fields[k].children, 1, << >>), fields, k, sizes)

\* field_sizes: state.formatted and arguments.inplace put back
fs_restore(m, saved) ==
  IF m.res # "Ok" THEN m
  ELSE [m EXCEPT !.st = [@ EXCEPT !.formatted = saved.formatted, !.inplace = saved.inplace]]

\* field_sizes
field_sizes(st, fields) ==
  fs_restore(fs_loop([st EXCEPT !.formatted = << >>, !.inplace = TRUE],
                     fields, 1, <<0, 0, 0, 0>>),
             st)

\* format_proto: "PROTO <name> [", state.level = 1
proto_open(st, node) ==
  [print(st, kwPROTO \o <<SP>> \o ChildrenOfKind(node, "name")[1].text \o <<SP, "[">>)
     EXCEPT !.level = 1]

\* format_proto, the ("field", true) arm before the parts
field_begin(st) == newline(st)

\* " ".repeat(at.saturating_sub(state.col))
pad_to(st, target) == print(st, Spaces(target - st.col))

\* format_proto, one part of a field: fields.get(p - 1).ok_or_else(..)?, format_node(..)?
field_part(st, field, p) ==
  IF p > Len(field.children) THEN Err(st) ELSE format_node(st, field.children[p])

\* the column the comment after a field is padded to
CommentColumn(st, sz) == st.level * NumSpaces + sz[1] + sz[2] + sz[3] + sz[4]

\* format_proto, where the ("comment", true) arm of the header puts the comment
header_comment_at(st, ll, child, sz) ==
  IF child.srow # ll THEN newline(st) ELSE pad_to(st, CommentColumn(st, sz))

\* format_proto, the ("comment", true) arm of the header
header_comment(st, ll, child, sz) ==
  format_comment(header_comment_at(st, ll, child, sz), child)

\* format_proto between the header and the body
proto_mid(st) ==
  [println(println(println(st, << >>), <<"]">>), <<"{">>) EXCEPT !.level = 0]

\* format_proto, a body child and the line break after it
body_child(st, child) ==
  ThenLine(IF child.kind = "comment" THEN format_comment(st, child)
           ELSE format_node(st, child))

\* format_proto's end
proto_close(st) == print(st, <<"}">>)

(***************************************************************************)
(* The source files the runs start from.  Every file is text; the trees    *)
(* come from Parse.                                                        *)
(***************************************************************************)
MaxHeaderItems == 3
MaxTopItems    == 2
MaxBodyItems   == 1
MaxPasses      == 2

Words(ws)   == JoinWith(ws, <<SP>>)
Text(lines) == JoinWith(lines, <<NL>>) \o <<NL>>

wX       == <<"X">>
wA       == <<"a">>
wBB      == <<"b", "b">>
wC       == <<"c">>
wR       == <<"R">>
w1       == <<"1">>
w22      == <<"2", "2">>
wFoo     == <<"F", "o", "o">>
wBar     == <<"B", "a", "r">>
wSFFloat == <<"S", "F", "F", "l", "o", "a", "t">>
wSFInt32 == <<"S", "F", "I", "n", "t", "3", "2">>
wMFFloat == <<"M", "F", "F", "l", "o", "a", "t">>
wUrl     == <<"\"", "a", "\"">>
wStmtA   == <<"a", ";">>
wStmtB   == <<"b", ";">>

lnVrml     == <<"#">> \o kwVRML \o <<"_", "S", "I", "M">>
lnSpaced   == <<"#", " ">> \o kwVRML
lnSection  == <<"#", "#", "x">>
lnTight    == <<"#", "x">>
lnLoose    == <<"#", " ", " ", "x", " ">>
lnBare     == <<"#">>
lnCA       == <<"#", " ", "A">>
sfxCS      == <<" ", "#", " ", "s">>
lnExtern   == Words(<<kwEXTERNPROTO, wUrl>>)
lnStray    == Words(<<wFoo, <<"{">>, <<"}">>>>)
lnProto    == Words(<<kwPROTO, wX, <<"[">>>>)
lnClose    == <<"]">>
lnBody     == <<"{">>
lnEnd      == <<"}">>
lnF1       == Words(<<kwField, wSFFloat, wA, w1>>)
lnF2       == Words(<<kwVrmlField, wSFInt32, wBB, w22>>)
lnFV       == Words(<<kwField, wMFFloat, wC, <<"[">>>>)
lnShort    == Words(<<kwField, wSFFloat, wA>>)
lnNode1    == Words(<<wFoo, <<"{">>, wA, w1, wBB, <<"[">>, <<"1", ",">>, w22, <<"]">>, <<"}">>>>)
lnNodeV    == Words(<<wFoo, <<"{">>, wC, <<"[">>, wBar, <<"{">>, <<"}">>, <<"]">>, <<"}">>>>)
lnVecV     == Words(<<wC, <<"[">>, wBar, <<"{">>, <<"}">>, <<"]">>>>)
lnNodeOpen == Words(<<kwDEF, wR, wFoo, <<"{">>>>)
lnProp     == Words(<<wA, w1>>) \o sfxCS
lnUse      == Words(<<kwUSE, wR>>)
lnJs       == Words(<<jsOpen, wStmtA, wStmtB, jsClose>>)
lnNodeJs   == Words(<<wFoo, <<"{">>, jsOpen, wStmtA, wStmtB, jsClose, <<"}">>>>)
lnOneLine  == Words(<<kwPROTO, wX, <<"[">>, kwField, wSFFloat, wA, w1,
                      kwVrmlField, wSFInt32, wBB, w22, <<"]", "{", "}">>>>)

\* all sequences over S of length at most n
SeqsUpTo(S, n) == UNION {[1..k -> S] : k \in 0..n}

\* a line-end comment joins the line before it
WithSuffix(lines, sfx) ==
  IF lines = << >> THEN <<sfx>>
  ELSE [lines EXCEPT ![Len(lines)] = @ \o sfx]

HeaderItems == {"F1", "F2", "FV", "CA", "CS"}

HeaderItem(lines, it) ==
  CASE it = "F1" -> Append(lines, lnF1)
    [] it = "F2" -> Append(lines, lnF2)
    [] it = "FV" -> lines \o <<lnFV, lnClose>>
    [] it = "CA" -> Append(lines, lnCA)
    [] it = "CS" -> WithSuffix(lines, sfxCS)

RECURSIVE HeaderLines(_, _)
HeaderLines(lines, items) ==
  IF items = << >> THEN lines
  ELSE HeaderLines(HeaderItem(lines, Head(items)), Tail(items))

HeaderSources ==
  {Text(HeaderLines(<<lnProto>>, items) \o <<lnClose, lnBody, lnEnd>>) :
     items \in SeqsUpTo(HeaderItems, MaxHeaderItems)}
  \cup {Text(<<lnOneLine>>)}

TopItems == {"comment", "extern", "CS", "stray", "blank"}

TopItem(lines, it) ==
  CASE it = "comment" -> Append(lines, lnCA)
    [] it = "extern"  -> Append(lines, lnExtern)
    [] it = "CS"      -> WithSuffix(lines, sfxCS)
    [] it = "stray"   -> Append(lines, lnStray)
    [] it = "blank"   -> Append(lines, << >>)

RECURSIVE TopLines(_, _)
TopLines(lines, items) ==
  IF items = << >> THEN lines
  ELSE TopLines(TopItem(lines, Head(items)), Tail(items))

MinimalProto == <<lnProto, lnClose, lnBody, lnEnd>>

TopSources ==
  {Text(TopLines(<< >>, items) \o tail) :
     items \in SeqsUpTo(TopItems, MaxTopItems), tail \in {<< >>, MinimalProto}}

\* files with two protos
TwoProtoSources ==
  {Text(pre \o MinimalProto \o MinimalProto) : pre \in {<< >>, <<lnCA>>}}

BodyItems == {"node1", "nodeV", "nodeM", "vecM", "use", "comment"}
JsItems   == {"js", "jsM", "nodeJs"}

BodyItem(lines, it) ==
  CASE it = "node1"   -> Append(lines, lnNode1)
    [] it = "nodeV"   -> Append(lines, lnNodeV)
    [] it = "nodeM"   -> lines \o <<lnNodeOpen, lnProp, lnCA, lnEnd>>
    [] it = "vecM"    -> lines \o <<lnNodeOpen, lnVecV, lnEnd>>
    [] it = "use"     -> Append(lines, lnUse)
    [] it = "comment" -> Append(lines, lnCA)
    [] it = "js"      -> Append(lines, lnJs)
    [] it = "jsM"     -> lines \o <<jsOpen, wStmtA, jsClose>>
    [] it = "nodeJs"  -> Append(lines, lnNodeJs)

RECURSIVE BodyLines(_, _)
BodyLines(lines, items) ==
  IF items = << >> THEN lines
  ELSE BodyLines(BodyItem(lines, Head(items)), Tail(items))

BodySource(items) == Text(<<lnProto, lnClose, lnBody>> \o BodyLines(<< >>, items) \o <<lnEnd>>)

BodySources == {BodySource(items) : items \in SeqsUpTo(BodyItems, MaxBodyItems)}

JsSources ==
  {BodySource(pre \o <<it>>) : pre \in SeqsUpTo(BodyItems, MaxBodyItems - 1), it \in JsItems}

CommentLines == {lnVrml, lnSpaced, lnSection, lnTight, lnLoose, lnBare}

CommentSources ==
  {Text(<<c>>) : c \in CommentLines}
  \cup {Text(<<lnProto, c, lnClose, lnBody, c, lnEnd>>) : c \in CommentLines}

\* files the parser cannot parse cleanly
BrokenSources ==
  {Text(<<lnProto, lnShort, lnClose, lnBody, lnEnd>>),
   Text(<<lnCA, lnExtern, Words(<<wFoo, <<"{">>>>)>>),
   Text(<<lnCA, lnClose>>),
   Text(<<lnExtern, lnProto, lnF1>>)}

DefectSources ==
  {Text(pre \o <<lnProto, lnF1, lnF2, lnClose, lnBody, lnEnd>>) :
     pre \in {<< >>, <<lnCA>>, <<lnExtern>>}}

(***************************************************************************)
(* Trees the node API allows and the formatter guards against (lines 211   *)
(* and 238-263): a proto without its name child, a field with fewer than   *)
(* four children.                                                          *)
(***************************************************************************)
Defects == {"none", "no_name", "short_field"}

DropName(proto) ==
  [proto EXCEPT !.children = SelectSeq(@, LAMBDA c : c.kind # "name")]

ShortField(node) ==
  IF node.kind = "field" THEN [node EXCEPT !.children = SubSeq(@, 1, 3)] ELSE node

DropValue(proto) ==
  [proto EXCEPT !.children = [k \in 1..Len(@) |-> ShortField(@[k])]]

DefectiveChild(node, d) ==
  IF node.kind # "proto" THEN node
  ELSE IF d = "no_name" THEN DropName(node)
  ELSE IF d = "short_field" THEN DropValue(node)
  ELSE node

WithDefect(root, d) ==
  [root EXCEPT !.children = [k \in 1..Len(@) |-> DefectiveChild(@[k], d)]]

Inputs ==
  {[file |-> f, defect |-> "none", clang |-> "ok"] :
     f \in HeaderSources \cup TopSources \cup BodySources \cup JsSources
           \cup CommentSources \cup BrokenSources \cup TwoProtoSources}
  \cup {[file |-> f, defect |-> d, clang |-> "ok"] :
          f \in DefectSources, d \in Defects \ {"none"}}
  \cup {[file |-> f, defect |-> "none", clang |-> c] :
          f \in JsSources, c \in ClangOutcomes \ {"ok"}}

(***************************************************************************)
(* The program.                                                            *)
(*   file, inplace    the text read by beautify_file and options.inplace   *)
(*   defect           the shape of the tree the parser hands over          *)
(*   pass             how many times the tool has been run on the text     *)
(*   pc               where the run is                                     *)
(*   doc              the tree (tree.root_node())                          *)
(*   state            struct State                                         *)
(*   i, last_node     format_document: the child at hand, last_node        *)
(*   j, ok, last_line format_proto: the child at hand, ok, last_line       *)
(*   sizes, part, at  format_proto: sizes, the field part at hand, at      *)
(*   result           what beautify returned ("Ok", "Err"), or "Panic"     *)
(*   shadow           [state, last_line] of the same run with the cursor   *)
(*                    left by field_sizes where it found it                *)
(***************************************************************************)
VARIABLES file, inplace, defect, pass, pc, doc, state, i, last_node,
          j, ok, last_line, sizes, part, at, result, shadow

vars == <<clang, file, inplace, defect, pass, pc, doc, state, i, last_node,
          j, ok, last_line, sizes, part, at, result, shadow>>

NoDoc == Node("none", << >>, 0, 0, FALSE, << >>)

Shadow(st, ll) == [state |-> st, last_line |-> ll]

Init ==
  /\ \E inp \in Inputs :
       /\ file = inp.file
       /\ defect = inp.defect
       /\ clang = inp.clang
  /\ inplace \in BOOLEAN
  /\ pass = 1
  /\ pc = "beautify"
  /\ doc = NoDoc
  /\ state = NewState(inplace)
  /\ shadow = Shadow(NewState(inplace), 0)
  /\ i = 1
  /\ last_node = RootAsLast(NoDoc)
  /\ j = 1
  /\ ok = FALSE
  /\ last_line = 0
  /\ sizes = <<0, 0, 0, 0>>
  /\ part = 1
  /\ at = 0
  /\ result = "none"

\* the text the run has delivered: the returned buffer, or what went to stdout
Delivered(st) == IF st.inplace THEN st.formatted ELSE st.out

Child == doc.children[i]

ProtoChild == Child.children[j]

InDocument == pc = "document" /\ i <= Len(doc.children)
InHeader   == pc = "header" /\ j <= Len(Child.children)
InBody     == pc = "body" /\ j <= Len(Child.children)

\* the step ended r: the state it left, and where the run goes (on at `next` after
\* Ok; beautify returns the Err; a panic aborts the process)
Step(r, next) ==
  /\ state' = r.st
  /\ pc' = IF r.res = "Ok" THEN next ELSE IF r.res = "Err" THEN "returned" ELSE "aborted"
  /\ result' = IF r.res = "Ok" THEN result ELSE r.res

\* beautify up to the has_error check, root being tree.root_node()
Parsed(root) ==
  /\ doc' = root
  /\ last_node' = RootAsLast(root)
  /\ pc' = IF HasError(root) THEN "returned" ELSE "document"
  /\ result' = IF HasError(root) THEN "Err" ELSE result

\* beautify: parse, reject a tree with an error, else build State and enter
\* format_document (lines 78-106)
Beautify ==
  /\ pc = "beautify"
  /\ Parsed(WithDefect(Parse(file), defect))
  /\ state' = NewState(inplace)
  /\ shadow' = Shadow(NewState(inplace), 0)
  /\ i' = 1
  /\ UNCHANGED <<clang, file, inplace, defect, pass, j, ok, last_line, sizes, part, at>>

\* a child of the document is done
NextChild ==
  /\ i' = i + 1
  /\ last_node' = ChildAsLast(Child)

DocComment ==
  /\ InDocument
  /\ Child.kind = "comment"
  /\ Step(doc_comment(state, last_node, Child), "document")
  /\ shadow' = [shadow EXCEPT !.state = doc_comment(@, last_node, Child).st]
  /\ NextChild
  /\ UNCHANGED <<clang, file, inplace, defect, pass, doc, j, ok, last_line, sizes, part, at>>

DocExtern ==
  /\ InDocument
  /\ Child.kind = "extern"
  /\ Step(doc_extern(state, last_node, Child), "document")
  /\ shadow' = [shadow EXCEPT !.state = doc_extern(@, last_node, Child).st]
  /\ NextChild
  /\ UNCHANGED <<clang, file, inplace, defect, pass, doc, j, ok, last_line, sizes, part, at>>

DocOther ==
  /\ InDocument
  /\ Child.kind \notin {"comment", "extern", "proto"}
  /\ Step(doc_other(state, Child), "document")
  /\ shadow' = [shadow EXCEPT !.state = doc_other(@, Child).st]
  /\ NextChild
  /\ UNCHANGED <<clang, file, inplace, defect, pass, doc, j, ok, last_line, sizes, part, at>>

\* format_document's "proto" arm: the line break, then format_proto looks up the name
DocProto ==
  /\ InDocument
  /\ Child.kind = "proto"
  /\ Step(doc_proto(state, Child), "field_sizes")
  /\ shadow' = [shadow EXCEPT !.state = doc_proto(@, Child).st]
  /\ UNCHANGED <<clang, file, inplace, defect, pass, doc, i, last_node,
                 j, ok, last_line, sizes, part, at>>

\* the measurement ended m
Sized(m) ==
  /\ sizes' = m.val
  /\ Step(m, "proto_open")

\* format_proto: let sizes = field_sizes(state, fields)
FieldSizes ==
  /\ pc = "field_sizes"
  /\ Sized(field_sizes(state, ChildrenOfKind(Child, "field")))
  /\ UNCHANGED <<clang, file, inplace, defect, pass, doc, i, last_node,
                 j, ok, last_line, part, at, shadow>>

\* format_proto: the opening line, level, last_line and ok (lines 219-224)
ProtoOpen ==
  /\ pc = "proto_open"
  /\ state' = proto_open(state, Child)
  /\ shadow' = Shadow(proto_open(shadow.state, Child), 0)
  /\ last_line' = 0
  /\ ok' = FALSE
  /\ j' = 1
  /\ pc' = "header"
  /\ UNCHANGED <<clang, file, inplace, defect, pass, doc, i, last_node, sizes, part, at, result>>

\* header loop: ("[", false) and ("]", true)
HeaderBracket ==
  /\ InHeader
  /\ \/ ProtoChild.kind = "[" /\ ~ok
     \/ ProtoChild.kind = "]" /\ ok
  /\ ok' = ~ok
  /\ j' = j + 1
  /\ UNCHANGED <<clang, file, inplace, defect, pass, pc, doc, state, i, last_node,
                 last_line, sizes, part, at, result, shadow>>

\* header loop: ("field", true), up to the first part
FieldBegin ==
  /\ InHeader
  /\ ProtoChild.kind = "field" /\ ok
  /\ state' = field_begin(state)
  /\ shadow' = Shadow(field_begin(shadow.state), ProtoChild.erow)
  /\ last_line' = ProtoChild.erow
  /\ at' = state'.level * NumSpaces + sizes[1]
  /\ part' = 1
  /\ pc' = "field_part"
  /\ UNCHANGED <<clang, file, inplace, defect, pass, doc, i, last_node, j, ok, sizes, result>>

\* header loop: one of the four parts of the field
FieldPart ==
  /\ pc = "field_part"
  /\ Step(field_part(state, ProtoChild, part), IF part < 4 THEN "field_pad" ELSE "header")
  /\ shadow' = [shadow EXCEPT !.state = field_part(@, ProtoChild, part).st]
  /\ j' = IF part < 4 THEN j ELSE j + 1
  /\ UNCHANGED <<clang, file, inplace, defect, pass, doc, i, last_node,
                 ok, last_line, sizes, part, at>>

\* the column of the part after part p
NextColumn(p) == IF p = 1 THEN at ELSE at + sizes[p]

\* header loop: the padding up to the next part's column
FieldPad ==
  /\ pc = "field_pad"
  /\ at' = NextColumn(part)
  /\ state' = pad_to(state, NextColumn(part))
  /\ shadow' = [shadow EXCEPT !.state = pad_to(@, NextColumn(part))]
  /\ part' = part + 1
  /\ pc' = "field_part"
  /\ UNCHANGED <<clang, file, inplace, defect, pass, doc, i, last_node,
                 j, ok, last_line, sizes, result>>

\* the comment was formatted: last_line = state.row
Commented(r) ==
  /\ last_line' = r.st.row
  /\ Step(r, "header")

ShadowCommented(r) == shadow' = Shadow(r.st, r.st.row)

\* header loop: ("comment", true)
HeaderComment ==
  /\ InHeader
  /\ ProtoChild.kind = "comment" /\ ok
  /\ Commented(header_comment(state, last_line, ProtoChild, sizes))
  /\ ShadowCommented(header_comment(shadow.state, shadow.last_line, ProtoChild, sizes))
  /\ j' = j + 1
  /\ UNCHANGED <<clang, file, inplace, defect, pass, doc, i, last_node, ok, sizes, part, at>>

\* header loop: (_, _) => continue
HeaderSkip ==
  /\ InHeader
  /\ ~(ProtoChild.kind = "[" /\ ~ok)
  /\ ~(ProtoChild.kind \in {"]", "field", "comment"} /\ ok)
  /\ j' = j + 1
  /\ UNCHANGED <<clang, file, inplace, defect, pass, pc, doc, state, i, last_node,
                 ok, last_line, sizes, part, at, result, shadow>>

\* format_proto between the loops (lines 280-284)
ProtoMid ==
  /\ pc = "header" /\ j > Len(Child.children)
  /\ state' = proto_mid(state)
  /\ shadow' = [shadow EXCEPT !.state = proto_mid(@)]
  /\ ok' = FALSE
  /\ j' = 1
  /\ pc' = "body"
  /\ UNCHANGED <<clang, file, inplace, defect, pass, doc, i, last_node,
                 last_line, sizes, part, at, result>>

\* body loop: ("{", false)
BodyBrace ==
  /\ InBody
  /\ ProtoChild.kind = "{" /\ ~ok
  /\ ok' = TRUE
  /\ j' = j + 1
  /\ UNCHANGED <<clang, file, inplace, defect, pass, pc, doc, state, i, last_node,
                 last_line, sizes, part, at, result, shadow>>

\* body loop: a node, a comment or a javascript_block, and the line break after it
BodyChild ==
  /\ InBody
  /\ ProtoChild.kind \in {"node", "comment", "javascript_block"} /\ ok
  /\ Step(body_child(state, ProtoChild), "body")
  /\ shadow' = [shadow EXCEPT !.state = body_child(@, ProtoChild).st]
  /\ j' = j + 1
  /\ UNCHANGED <<clang, file, inplace, defect, pass, doc, i, last_node,
                 ok, last_line, sizes, part, at>>

\* body loop: (_, _) => continue
BodySkip ==
  /\ InBody
  /\ ~(ProtoChild.kind = "{" /\ ~ok)
  /\ ~(ProtoChild.kind \in {"node", "comment", "javascript_block"} /\ ok)
  /\ j' = j + 1
  /\ UNCHANGED <<clang, file, inplace, defect, pass, pc, doc, state, i, last_node,
                 ok, last_line, sizes, part, at, result, shadow>>

\* format_proto returns; format_document goes to the next child
ProtoClose ==
  /\ pc = "body" /\ j > Len(Child.children)
  /\ state' = proto_close(state)
  /\ shadow' = [shadow EXCEPT !.state = proto_close(@)]
  /\ NextChild
  /\ pc' = "document"
  /\ UNCHANGED <<clang, file, inplace, defect, pass, doc, j, ok, last_line, sizes, part, at, result>>

\* beautify after format_document: state.println(""); Ok(state.formatted)
BeautifyReturn ==
  /\ pc = "document" /\ i > Len(doc.children)
  /\ state' = println(state, << >>)
  /\ shadow' = [shadow EXCEPT !.state = println(@, << >>)]
  /\ result' = "Ok"
  /\ pc' = "returned"
  /\ UNCHANGED <<clang, file, inplace, defect, pass, doc, i, last_node,
                 j, ok, last_line, sizes, part, at>>

\* the tool is run again on the text it delivered (main.rs: fs::write of the result in
\* inplace mode, the redirected stdout otherwise); beautify_file appends "\n" to
\* what it reads
Rerun ==
  /\ pc = "returned" /\ result = "Ok"
  /\ pass < MaxPasses
  /\ file' = Delivered(state) \o <<NL>>
  /\ defect' = "none"
  /\ pass' = pass + 1
  /\ pc' = "beautify"
  /\ result' = "none"
  /\ UNCHANGED <<clang, inplace, doc, state, i, last_node, j, ok, last_line, sizes,
                 part, at, shadow>>

Next ==
  \/ Beautify
  \/ DocComment \/ DocExtern \/ DocOther \/ DocProto
  \/ FieldSizes \/ ProtoOpen
  \/ HeaderBracket \/ FieldBegin \/ FieldPart \/ FieldPad \/ HeaderComment \/ HeaderSkip
  \/ ProtoMid
  \/ BodyBrace \/ BodyChild \/ BodySkip
  \/ ProtoClose
  \/ BeautifyReturn
  \/ Rerun

Spec == Init /\ [][Next]_vars

(***************************************************************************)
(* Properties.                                                             *)
(***************************************************************************)
Ended == pc \in {"returned", "aborted"}

RECURSIVE Descendants(_)
\* the node and every node below it
Descendants(n) == {n} \cup UNION {Descendants(n.children[k]) : k \in 1..Len(n.children)}

\* the text a step has added to what the run delivers
Emitted == SubSeq(Delivered(state'), Len(Delivered(state)) + 1, Len(Delivered(state')))

\* C1: Idempotence: formatting the text that a successful run delivered succeeds and
\* delivers exactly that text again (file, in the second pass, is the text the first
\* pass delivered, with the line break beautify_file appends to what it reads).
Idempotent ==
  pass >= 2 /\ Ended => result = "Ok" /\ Delivered(state) \o <<NL>> = file

\* C2: Error node rejection: when the tree contains an error node, beautify returns a
\* failure and nothing has reached the buffer or the stream.
ErrorNodeRejected ==
  pc # "beautify" /\ (\E n \in Descendants(doc) : n.kind = "ERROR")
    => /\ pc = "returned"
       /\ result = "Err"
       /\ state.formatted = << >>
       /\ state.out = << >>

\* a file with an error node below the top level has been rejected
ErrorNodeRejectedWitness ==
  /\ pc = "returned"
  /\ result = "Err"
  /\ \E k \in 1..Len(doc.children) :
       /\ doc.children[k].kind # "ERROR"
       /\ \E n \in Descendants(doc.children[k]) : n.kind = "ERROR"

\* C3: All-or-nothing output: when the run fails, no formatted text of the document has
\* reached the output sink.  In inplace mode the sink is the file, which is written only
\* with the buffer of a successful run; otherwise it is the standard output.
AllOrNothing ==
  Ended /\ result # "Ok" => state.out = << >>

\* the widest text in column c of the fields, plus the fixed padding
ColumnWidth(fields, c) ==
  LET lens == {Len(fields[k].children[c].text) : k \in 1..Len(fields)}
  IN (CHOOSE w \in lens : \A x \in lens : x <= w) + NumSpaces

RECURSIVE StartColumn(_, _)
\* the column at which part p of every field starts
StartColumn(fields, p) ==
  IF p = 1 THEN NumSpaces
  ELSE StartColumn(fields, p - 1) + ColumnWidth(fields, p - 1)

\* C4: Alignment invariant: in a parameter list every field's kind starts at the indent,
\* its type at indent + kind_width, its name at indent + kind_width + type_width and
\* its value at indent + kind_width + type_width + name_width, each width being the
\* widest text of the column over all the fields plus the padding; so no part starts
\* past its column and no padding is negative.
Aligned ==
  pc = "field_part" => state.col = StartColumn(ChildrenOfKind(Child, "field"), part)

\* the value of a field is about to be printed after a name shorter than the widest
AlignedWitness ==
  /\ pc = "field_part"
  /\ part = 4
  /\ Len(ChildrenOfKind(Child, "field")) >= 2
  /\ Len(ProtoChild.children[3].text) + NumSpaces
       < ColumnWidth(ChildrenOfKind(Child, "field"), 3)
  /\ Len(ProtoChild.children[1].text) + NumSpaces
       < ColumnWidth(ChildrenOfKind(Child, "field"), 1)

\* C5: One-liner preservation: a node of the proto body that starts and ends on the same
\* source row and has no node nested in it is emitted without a line break between its
\* '{' and '}' (the only line break of the step is the one format_proto adds after it).
OneLinerPreserved ==
  [][BodyChild /\ ProtoChild.kind = "node" /\ Oneliner(ProtoChild)
       /\ (\A n \in Descendants(ProtoChild) : n.kind = "node" => n = ProtoChild)
       /\ pc' = "body"
     => CountNL(Emitted) = 1]_vars

\* C6: Forced multi-line: a node of the proto body written on one source row that holds a
\* vector with a node among its elements is emitted with line breaks inside it (the
\* vector's elements and its ']' each on a line of their own).
ForcedMultiLine ==
  [][BodyChild /\ Oneliner(ProtoChild) /\ pc' = "body"
       /\ (\E v \in Descendants(ProtoChild) :
             v.kind = "vector" /\ \E k \in 1..Len(v.children) : v.children[k].kind = "node")
     => CountNL(Emitted) > 1]_vars

\* the text of a comment after its single leading marker, trimmed
AfterMarker(text) == Trim(Tail(text))

\* s without the line break at its end, if it has one
Chomp(s) == IF s # << >> /\ s[Len(s)] = NL THEN SubSeq(s, 1, Len(s) - 1) ELSE s

\* the comment a step has emitted, without what the caller put before and after it
EmittedComment == Chomp(TrimStart(Emitted))

\* the comment is the marker, then one space unless the text begins with the keyword,
\* then the text
Faithful(text, line) ==
  IF StartsWith(AfterMarker(text), kwVRML) THEN line = <<"#">> \o AfterMarker(text)
  ELSE line = <<"#", SP>> \o AfterMarker(text)

\* as Faithful, but a comment that begins with a doubled marker is emitted as it is
FaithfulOrVerbatim(text, line) ==
  IF StartsWith(Trim(text), <<"#", "#">>) THEN line = Trim(text)
  ELSE Faithful(text, line)

\* a step that formats a comment of the proto: in its header or in its body
ProtoCommentStep == (HeaderComment \/ BodyChild) /\ ProtoChild.kind = "comment"

\* C7 (as stated): every comment is emitted as the marker, exactly one space unless its
\* trimmed text begins with the reserved keyword, and the trimmed text.
CommentFidelity ==
  [][/\ DocComment => Faithful(Child.text, EmittedComment)
     /\ ProtoCommentStep => Faithful(ProtoChild.text, EmittedComment)]_vars

\* C7 (amended): a comment that begins with a doubled marker is emitted as it is,
\* trimmed; every other comment is emitted as the marker, exactly one space unless its
\* trimmed text begins with the reserved keyword, and the trimmed text.
CommentFidelityAmended ==
  [][/\ DocComment => FaithfulOrVerbatim(Child.text, EmittedComment)
     /\ ProtoCommentStep => FaithfulOrVerbatim(ProtoChild.text, EmittedComment)]_vars

\* a top-level comment that begins with the keyword has been emitted without a space
CommentFidelityWitness ==
  /\ pc = "document" /\ i > 1
  /\ doc.children[i - 1].kind = "comment"
  /\ StartsWith(AfterMarker(doc.children[i - 1].text), kwVRML)
  /\ Delivered(state) = <<"#">> \o AfterMarker(doc.children[i - 1].text) \o <<NL>>

\* C8: Embedded-code failure is fatal: a run over a document with an embedded code block
\* whose external formatter failed does not end in success.
EmbeddedFailureFatal ==
  /\ Ended
  /\ clang # "ok"
  /\ \E n \in Descendants(doc) : n.kind = "javascript_block"
  => result # "Ok"

\* C9: Malformed field: a run over a proto with a field of fewer than four children ends
\* with a failure returned by beautify, not with an abort and not with success.
MalformedFieldReturned ==
  /\ Ended
  /\ \E n \in Descendants(doc) : n.kind = "field" /\ Len(n.children) < 4
  => pc = "returned" /\ result = "Err"

\* C10: Measurement pass has no observable effect: a successful run delivers the text
\* it would deliver if field_sizes left the cursor (column and row) where it found it.
MeasurementUnobservable ==
  pc = "returned" /\ result = "Ok" => Delivered(state) = Delivered(shadow.state)

\* the proto child before the one at hand is a field that ends on the row r
FieldEndsOn(r) ==
  j > 1 /\ Child.children[j - 1].kind = "field" /\ Child.children[j - 1].erow = r

\* C11: Header comment placement: a comment of the parameter list is appended to the
\* current output line if and only if it starts on the source row on which the field
\* before it ends; every other comment, one that follows another comment included,
\* is emitted after a line break, on a fresh indented line.
HeaderCommentPlacement ==
  [][HeaderComment =>
       IF FieldEndsOn(ProtoChild.srow)
       THEN CountNL(Emitted) = 0
       ELSE StartsWith(Emitted, <<NL>> \o Spaces(NumSpaces) \o <<"#">>)]_vars

\* the text ends with exactly one empty line
EndsWithOneEmptyLine(t) ==
  \/ t = <<NL>>
  \/ Len(t) >= 3 /\ t[Len(t)] = NL /\ t[Len(t) - 1] = NL /\ t[Len(t) - 2] # NL

\* C12: Proto blank line: when format_proto is about to emit 'PROTO <name> [', what the
\* run has delivered so far ends with exactly one empty line, whatever top-level
\* sibling comes before the proto.
ProtoBlankLine ==
  pc = "proto_open" => EndsWithOneEmptyLine(Delivered(state))

====
